---- MODULE Spec2Model ----
(***************************************************************************)
(* Model of the PDF parse endpoint (src/app/api/chat/route.ts, second     *)
(* POST handler), its OCR-response normalization (processOcrResponse),    *)
(* the mock response (createMockResponse) and the asset store             *)
(* (src/unnamed/part_003, imported as "@/lib/server/asset-store").        *)
(*                                                                         *)
(* Strings are sequences of tokens.  A token is either one of the         *)
(* characters the code splits or matches on ("/", ".", "-", "!", "[",     *)
(* "]", "(", ")") or a chunk of text that contains none of them, so that  *)
(* split, join, pop and substring replacement are computed as JavaScript  *)
(* computes them.  A nullable number is <<>> (null) or <<v>>.             *)
(***************************************************************************)
EXTENDS Integers, Sequences, FiniteSets, TLC

\* ------------------------------------------------------------------ bounds
\* pages of a multi-page vendor document
MaxPages == 2
\* images of the page of a single-page vendor document
MaxImages == 2
\* tokens of the document content and messages of a chat request
MaxDocTokens == 2
MaxMessages == 2
\* invocations of handleProcessFile on the page
MaxRuns == 3

\* ------------------------------------------------------- program constants
DefaultPageWidth == 612
DefaultPageHeight == 792
DefaultDpi == 72
DefaultBottomRight == 100
DefaultTopLeft == 0

\* ---------------------------------------------------------- string helpers
Null == <<>>
Some(v) == <<v>>

\* JavaScript's `x || d` on a nullable number: null, undefined and 0 are falsy
NumOr(x, d) == IF x = Null THEN d ELSE IF x[1] = 0 THEN d ELSE x[1]

\* JavaScript's `s || d` on a string: the empty string is falsy
StrOr(s, d) == IF s = <<>> THEN d ELSE s

MatchAt(s, pat, i) ==
  /\ i + Len(pat) - 1 <= Len(s)
  /\ SubSeq(s, i, i + Len(pat) - 1) = pat

\* index of the first occurrence of pat in s at or after i, 0 when there is none
NextMatch(s, pat, i) ==
  LET at == {j \in i..Len(s) : MatchAt(s, pat, j)} IN
  IF at = {} THEN 0 ELSE CHOOSE j \in at : \A k \in at : j <= k

RECURSIVE SplitFrom(_, _, _)
SplitFrom(s, sep, i) ==
  LET j == NextMatch(s, sep, i) IN
  IF j = 0 THEN <<SubSeq(s, i, Len(s))>>
  ELSE <<SubSeq(s, i, j - 1)>> \o SplitFrom(s, sep, j + Len(sep))

\* String.prototype.split with a non-empty separator: left to right, non-overlapping
Split(s, sep) == SplitFrom(s, sep, 1)

RECURSIVE Join(_, _)
\* Array.prototype.join
Join(parts, sep) ==
  IF Len(parts) = 0 THEN <<>>
  ELSE IF Len(parts) = 1 THEN parts[1]
  ELSE parts[1] \o sep \o Join(Tail(parts), sep)

\* s.split(sep).pop()
SplitPop(s, sep) == LET parts == Split(s, sep) IN parts[Len(parts)]

\* s.split(sep)[0]
SplitFirst(s, sep) == Split(s, sep)[1]

\* mutant: s.replace(pattern, replacement), which rewrites the first occurrence only
ReplaceFirstOnly(s, pattern, replacement) ==
  LET i == NextMatch(s, pattern, 1) IN
  IF i = 0 THEN s
  ELSE SubSeq(s, 1, i - 1) \o replacement \o SubSeq(s, i + Len(pattern), Len(s))

\* s.split(pattern).join(replacement)
ReplaceAllLiteral(s, pattern, replacement) == Join(Split(s, pattern), replacement)

\* does s contain pat as a substring
Contains(s, pat) == \E i \in 1..Len(s) : MatchAt(s, pat, i)

RECURSIVE Flatten(_)
\* Array.prototype.flatMap over a sequence of sequences
Flatten(ss) == IF Len(ss) = 0 THEN <<>> ELSE ss[1] \o Flatten(Tail(ss))

\* ------------------------------------- insertion-ordered maps (JS objects)
\* a Record<string, V> is a sequence of <<key, value>> entries with distinct keys
MapHas(m, k) == \E i \in 1..Len(m) : m[i][1] = k
MapGet(m, k) == m[CHOOSE i \in 1..Len(m) : m[i][1] = k][2]
\* m[k] = v : an existing key keeps its position
MapPut(m, k, v) ==
  IF MapHas(m, k)
  THEN [i \in 1..Len(m) |-> IF m[i][1] = k THEN <<k, v>> ELSE m[i]]
  ELSE Append(m, <<k, v>>)
MapKeys(m) == {m[i][1] : i \in 1..Len(m)}

\* ------------------------------------------------------------- asset store
Slash == <<"/">>
Dot == <<".">>
Hyphen == <<"-">>
Base64Marker == ";base64,"
PngMime == <<"image", "/", "png">>
PngExt == <<"png">>
SessionInfoName == <<"session", "-", "info", ".", "json">>

\* position of the first ";base64," token, 0 when there is none
Base64Pos(data) ==
  IF \E i \in 1..Len(data) : data[i] = Base64Marker
  THEN CHOOSE i \in 1..Len(data) :
         /\ data[i] = Base64Marker
         /\ \A j \in 1..(i - 1) : data[j] # Base64Marker
  ELSE 0

\* /^data:([a-zA-Z0-9]+\/[a-zA-Z0-9-.+]+);base64,/ : group 1, or "image/png"
getMimeTypeFromBase64(base64Data) ==
  LET k == Base64Pos(base64Data) IN
  IF /\ k >= 5
     /\ base64Data[1] = "data:"
     /\ base64Data[3] = "/"
     /\ \A j \in 4..(k - 1) : base64Data[j] # "/"
  THEN SubSeq(base64Data, 2, k - 1)
  ELSE PngMime

\* /^data:image\/[a-zA-Z0-9-.+]+;base64,(.+)$/ : group 1, or the input itself
extractBase64Data(base64Data) ==
  LET k == Base64Pos(base64Data) IN
  IF /\ k >= 5
     /\ base64Data[1] = "data:"
     /\ base64Data[2] = "image"
     /\ base64Data[3] = "/"
     /\ \A j \in 4..(k - 1) : base64Data[j] # "/"
     /\ k < Len(base64Data)
  THEN SubSeq(base64Data, k + 1, Len(base64Data))
  ELSE base64Data

\* mimeType.split("/")[1] || "png"
ExtensionOf(mimeType) ==
  LET parts == Split(mimeType, Slash) IN
  IF Len(parts) >= 2 THEN StrOr(parts[2], PngExt) ELSE PngExt

\* uuidv4(): the n-th identifier drawn by the process, distinct from all others
Uuid4(n) == <<"u" \o ToString(n), "-", "4a7b", "-", "9c">>

\* uuidv4().slice(0, 8): the eight characters before the first hyphen
Uuid8(n) == SubSeq(Uuid4(n), 1, 1)

\* `${imageId}-${uuidv4().slice(0, 8)}.${extension}`
AssetFileName(imageId, base64Data, n) ==
  imageId \o Hyphen \o Uuid8(n) \o Dot \o ExtensionOf(getMimeTypeFromBase64(base64Data))

PublicDir(session) ==
  <<"/", "assets", "/", "ocr", "-", "images", "/">> \o session \o Slash

\* mutant: the public path leaves out the session directory
storeImageToFileSystemNoSession(imageId, base64Data, session, n) ==
  LET fileName == AssetFileName(imageId, base64Data, n) IN
  [ id |-> SplitFirst(fileName, Dot),
    originalId |-> imageId,
    filePath |-> session \o Slash \o fileName,
    publicPath |-> <<"/", "assets", "/", "ocr", "-", "images", "/">> \o fileName,
    mimeType |-> getMimeTypeFromBase64(base64Data) ]

\* the descriptor storeImageToFileSystem returns when writeFileSync succeeds
storeImageToFileSystem(imageId, base64Data, session, n) ==
  LET fileName == AssetFileName(imageId, base64Data, n) IN
  [ id |-> SplitFirst(fileName, Dot),
    originalId |-> imageId,
    filePath |-> session \o Slash \o fileName,
    publicPath |-> PublicDir(session) \o fileName,
    mimeType |-> getMimeTypeFromBase64(base64Data) ]

BlobHost == <<"https:", "/", "/", "blob", "/">>

\* `ocr-images/${sessionId}/${imageId}-${uuidv4().slice(0, 8)}.${extension}`
BlobFileName(imageId, base64Data, session, n) ==
  <<"ocr", "-", "images", "/">> \o session \o Slash \o AssetFileName(imageId, base64Data, n)

\* the descriptor storeImageToBlob returns when put succeeds
storeImageToBlob(imageId, base64Data, session, n) ==
  LET fileName == BlobFileName(imageId, base64Data, session, n) IN
  [ id |-> StrOr(SplitFirst(SplitPop(fileName, Slash), Dot), imageId),
    originalId |-> imageId,
    publicPath |-> BlobHost \o fileName,
    mimeType |-> getMimeTypeFromBase64(base64Data) ]

\* ------------------------------------------- processOcrResponse, per page
PlaceholderPath == <<"/", "placeholder", ".", "svg?height=200&width=300">>
BlankLine == <<"\n\n">>
DefaultModel == <<"mistral", "-", "ocr", "-", "latest">>

\* a JavaScript number that is the quotient of two integers
Frac(n, d) == [num |-> n, den |-> d]

\* image.imageBase64 ? `${image.imageBase64}` : "/placeholder.svg?height=200&width=300"
DataUrlOf(image) ==
  IF image.imageBase64 = <<>> THEN PlaceholderPath ELSE image.imageBase64

\* page.dimensions?.width || 612
PageWidthOf(page) ==
  IF page.dimensions = Null THEN DefaultPageWidth
  ELSE NumOr(Some(page.dimensions[1].width), DefaultPageWidth)

\* page.dimensions?.height || 792
PageHeightOf(page) ==
  IF page.dimensions = Null THEN DefaultPageHeight
  ELSE NumOr(Some(page.dimensions[1].height), DefaultPageHeight)

\* image.topLeftX || 0, image.topLeftY || 0
TopLeftOf(v) == NumOr(v, DefaultTopLeft)

\* image.bottomRightX || 100, image.bottomRightY || 100
BottomRightOf(v) == NumOr(v, DefaultBottomRight)

\* the callback of page.images.map: one image reference per vendor image
MapImage(image, page) ==
  LET topLeftX == TopLeftOf(image.topLeftX)
      topLeftY == TopLeftOf(image.topLeftY)
      bottomRightX == BottomRightOf(image.bottomRightX)
      bottomRightY == BottomRightOf(image.bottomRightY)
      width == bottomRightX - topLeftX
      height == bottomRightY - topLeftY
      pageWidth == PageWidthOf(page)
      pageHeight == PageHeightOf(page)
  IN [ id |-> image.id,
       url |-> DataUrlOf(image),
       coordinates |-> [ x |-> Frac(topLeftX, pageWidth),
                         y |-> Frac(topLeftY, pageHeight),
                         width |-> Frac(width, pageWidth),
                         height |-> Frac(height, pageHeight) ],
       originalCoordinates |-> [ top_left_x |-> topLeftX,
                                 top_left_y |-> topLeftY,
                                 bottom_right_x |-> bottomRightX,
                                 bottom_right_y |-> bottomRightY ] ]

\* mutant: images without a payload are skipped
MapImagesSkipsEmpty(page) ==
  LET kept == SelectSeq(page.images, LAMBDA im : im.imageBase64 # <<>>) IN
  [i \in 1..Len(kept) |-> MapImage(kept[i], page)]

\* const images = page.images.map(...)
MapImages(page) == [i \in 1..Len(page.images) |-> MapImage(page.images[i], page)]

RECURSIVE BuildImageMap(_, _)
\* imageMap[image.id] = dataUrl, for the first n images of the page
BuildImageMap(vendorImages, n) ==
  IF n = 0 THEN <<>>
  ELSE MapPut(BuildImageMap(vendorImages, n - 1),
              vendorImages[n].id, DataUrlOf(vendorImages[n]))

ImageMapOf(page) == BuildImageMap(page.images, Len(page.images))

\* `![${id}](${target})`
ImageMarkdown(id, target) == <<"!", "[">> \o id \o <<"]", "(">> \o target \o <<")">>

\* mutant: savedImages[id]?.publicPath with no `|| dataUrl`
UrlForNoFallback(savedImages, id, dataUrl) ==
  IF MapHas(savedImages, id) THEN MapGet(savedImages, id).publicPath ELSE <<"undefined">>

\* savedImages[id]?.publicPath || dataUrl
UrlFor(savedImages, id, dataUrl) ==
  IF MapHas(savedImages, id)
  THEN StrOr(MapGet(savedImages, id).publicPath, dataUrl)
  ELSE dataUrl

RECURSIVE ReplaceImages(_, _, _, _)
\* Object.entries(imageMap).forEach(...) from entry i on
ReplaceImages(markdown, imageMap, savedImages, i) ==
  IF i > Len(imageMap) THEN markdown
  ELSE LET id == imageMap[i][1]
           dataUrl == imageMap[i][2]
           imagePattern == ImageMarkdown(id, id)
           imageReplacement == ImageMarkdown(id, UrlFor(savedImages, id, dataUrl))
       IN ReplaceImages(ReplaceAllLiteral(markdown, imagePattern, imageReplacement),
                        imageMap, savedImages, i + 1)

\* images.map((img) => ({ ...img, url: savedImages[img.id]?.publicPath || img.url }))
UpdateImages(images, savedImages) ==
  [i \in 1..Len(images) |->
     [images[i] EXCEPT !.url = UrlFor(savedImages, images[i].id, images[i].url)]]

DefaultDimensions == [dpi |-> DefaultDpi, height |-> DefaultPageHeight, width |-> DefaultPageWidth]

\* mutant: rawMarkdown is taken after the rewrite
RawMarkdownOfProcessed(page, processedMarkdown) == processedMarkdown

\* page.markdown as returned in rawMarkdown
RawMarkdownOf(page, processedMarkdown) == page.markdown

\* the object the page callback returns once storeImagesFromMap has resolved
ProcessPage(page, savedImages) ==
  LET processedMarkdown == ReplaceImages(page.markdown, ImageMapOf(page), savedImages, 1) IN
  [ index |-> page.index,
    markdown |-> processedMarkdown,
    rawMarkdown |-> RawMarkdownOf(page, processedMarkdown),
    images |-> UpdateImages(MapImages(page), savedImages),
    dimensions |-> IF page.dimensions = Null THEN DefaultDimensions ELSE page.dimensions[1] ]

\* ------------------------------------- processOcrResponse, whole document
\* the descriptor derived from an image reference's url
StoredAssetOf(img) ==
  LET publicPath == img.url
      fileName == SplitPop(publicPath, Slash)
  IN [ id |-> StrOr(SplitFirst(fileName, Dot), img.id),
       originalId |-> img.id,
       publicPath |-> publicPath,
       mimeType |-> <<"image", "/">> \o StrOr(SplitPop(fileName, Dot), PngExt) ]

\* processedPages.flatMap(page => page.images.map(...)) then .filter(Boolean)
AllStoredAssets(processedPages) ==
  LET imgs == Flatten([p \in 1..Len(processedPages) |-> processedPages[p].images])
  IN SelectSeq([i \in 1..Len(imgs) |-> <<imgs[i].url # <<>>, StoredAssetOf(imgs[i])>>],
               LAMBDA e : e[1])

RECURSIVE KeepFirstFrom(_, _)
\* .filter((asset, index, self) => index === self.findIndex((a) => a?.id === asset?.id))
KeepFirstFrom(assets, i) ==
  IF i > Len(assets) THEN <<>>
  ELSE (IF \E j \in 1..(i - 1) : assets[j].id = assets[i].id THEN <<>> ELSE <<assets[i]>>)
       \o KeepFirstFrom(assets, i + 1)

RECURSIVE KeepLastFrom(_, _)
KeepLastFrom(assets, i) ==
  IF i > Len(assets) THEN <<>>
  ELSE (IF \E j \in (i + 1)..Len(assets) : assets[j].id = assets[i].id
        THEN <<>> ELSE <<assets[i]>>)
       \o KeepLastFrom(assets, i + 1)

\* mutant: the last entry of each derived id is kept
DedupeKeepsLast(assets) == KeepLastFrom(assets, 1)

DedupeAssets(assets) == KeepFirstFrom(assets, 1)

\* mutant: the pages are collected in the order their callbacks returned
CompletionOrder(results, finishOrder) ==
  [i \in 1..Len(results) |-> results[finishOrder[i]]]

\* the pages in the order Promise.all returns them: the order of ocrResponse.pages
PromiseAllOrder(results, finishOrder) == results

JoinPages(texts) == Join(texts, BlankLine)

\* the object processOcrResponse returns
CombinePages(ocr, processedPages, session) ==
  LET all == AllStoredAssets(processedPages)
      usageInfo == IF ocr.usageInfo = Null
                   THEN [pagesProcessed |-> Some(Len(ocr.pages)), docSizeBytes |-> Some(0)]
                   ELSE ocr.usageInfo[1]
  IN [ text |-> JoinPages([p \in 1..Len(processedPages) |-> processedPages[p].markdown]),
       rawText |-> JoinPages([p \in 1..Len(processedPages) |-> processedPages[p].rawMarkdown]),
       sessionId |-> session,
       pages |-> processedPages,
       images |-> Flatten([p \in 1..Len(processedPages) |-> processedPages[p].images]),
       storedAssets |-> DedupeAssets([i \in 1..Len(all) |-> all[i][2]]),
       usage |-> [ pages_processed |-> NumOr(usageInfo.pagesProcessed, 0),
                   doc_size_bytes |-> NumOr(usageInfo.docSizeBytes, 0) ],
       model |-> StrOr(ocr.model, DefaultModel) ]

\* ------------------------------------------------------ createMockResponse
PmiGraphUrl ==
  <<"https:", "/", "/", "hebbkx1anhila5yf", ".", "public", ".", "blob", ".", "vercel",
    "-", "storage", ".", "com", "/", "img", "-", "1", ".", "jpeg", "-", "0afae6fb",
    "-", "OLkYscR0PxBzexzNs6sQJ6v8H4dKv2", ".", "jpeg">>
PmiGraphId == <<"pmi_graph">>
\* `data:image/jpeg;base64,${base64Image}`
MockDataUrl == <<"data:", "image", "/", "jpeg", ";base64,", "PMIGRAPH">>
MockImageMap == << <<PmiGraphId, MockDataUrl>> >>

SampleMarkdown(fileName) ==
  <<"# PMI Economic Report: ">> \o fileName \o <<"## Economic Analysis">>
    \o ImageMarkdown(PmiGraphId, PmiGraphUrl) \o <<"## Price Trends">>

\* String.prototype.replace with a string pattern: the first occurrence only
ReplaceFirst(s, pat, rep) ==
  LET i == NextMatch(s, pat, 1) IN
  IF i = 0 THEN s
  ELSE SubSeq(s, 1, i - 1) \o rep \o SubSeq(s, i + Len(pat), Len(s))

MockImage(savedImages) ==
  [ id |-> PmiGraphId,
    url |-> UrlFor(savedImages, PmiGraphId, PmiGraphUrl),
    coordinates |-> [ x |-> Frac(8, 100), y |-> Frac(38, 100),
                      width |-> Frac(82, 100), height |-> Frac(25, 100) ],
    originalCoordinates |-> [ top_left_x |-> 50, top_left_y |-> 300,
                              bottom_right_x |-> 550, bottom_right_y |-> 500 ] ]

\* Object.values(savedImages).map((asset) => ({ id, originalId, publicPath, mimeType }))
MockStoredAssets(savedImages) ==
  [i \in 1..Len(savedImages) |->
     [ id |-> savedImages[i][2].id,
       originalId |-> savedImages[i][2].originalId,
       publicPath |-> savedImages[i][2].publicPath,
       mimeType |-> savedImages[i][2].mimeType ]]

\* mutant: the mock response comes without its image
createMockResponseNoImage(fileName, session, savedImages) ==
  [ text |-> SampleMarkdown(fileName), sessionId |-> session, images |-> <<>> ]

\* the object createMockResponse returns once storeImagesFromMap has resolved
createMockResponse(fileName, session, savedImages) ==
  LET sampleMarkdown == SampleMarkdown(fileName)
      rawMarkdown == ReplaceFirst(sampleMarkdown, ImageMarkdown(PmiGraphId, PmiGraphUrl),
                                  ImageMarkdown(PmiGraphId, PmiGraphId))
  IN [ text |-> sampleMarkdown,
       rawText |-> rawMarkdown,
       sessionId |-> session,
       pages |-> << [ index |-> 0,
                      markdown |-> sampleMarkdown,
                      rawMarkdown |-> rawMarkdown,
                      images |-> <<MockImage(savedImages)>>,
                      dimensions |-> DefaultDimensions ] >>,
       images |-> <<MockImage(savedImages)>>,
       storedAssets |-> MockStoredAssets(savedImages),
       usage |-> [pages_processed |-> 1, doc_size_bytes |-> 1024],
       model |-> DefaultModel,
       maxTokens |-> 8000 ]

\* ------------------------------------------------------------------ inputs
Img0 == <<"img", "-", "0", ".", "jpeg">>
Img1 == <<"img", "-", "1", ".", "jpeg">>
ImgPlain == <<"img">>
ImageIds == {Img0, Img1, ImgPlain}

JpegDataUrl == <<"data:", "image", "/", "jpeg", ";base64,", "QUJD">>
\* null, undefined and "" are all falsy at the one place imageBase64 is tested
NoPayload == <<>>
Payloads == {NoPayload, JpegDataUrl}

TypicalBox == [tlx |-> Some(50), tly |-> Some(300), brx |-> Some(550), bry |-> Some(500)]

VendorImage(id, payload, box) ==
  [ id |-> id, topLeftX |-> box.tlx, topLeftY |-> box.tly,
    bottomRightX |-> box.brx, bottomRightY |-> box.bry, imageBase64 |-> payload ]

\* a corner coordinate as the vendor may send it: null, 0 or a positive pixel value
TopLeftChoices == {Null, Some(0), Some(50)}
BottomRightChoices == {Null, Some(0), Some(550)}
Boxes ==
  [tlx : TopLeftChoices, tly : TopLeftChoices, brx : BottomRightChoices, bry : BottomRightChoices]

\* page.dimensions as the vendor may send it: null, a scanned page, a page of size 0
DimensionChoices ==
  { Null, Some([dpi |-> 200, height |-> 2200, width |-> 1700]),
    Some([dpi |-> 72, height |-> 0, width |-> 0]) }

PlainMarkdown == <<"Plain text">>
RichMarkdowns ==
  { PlainMarkdown,
    ImageMarkdown(Img0, Img0) \o <<"Text">> \o ImageMarkdown(Img0, Img0),
    ImageMarkdown(ImgPlain, ImgPlain) \o ImageMarkdown(Img1, Img1) }
LightMarkdowns ==
  { PlainMarkdown, <<"Figure">> \o ImageMarkdown(Img0, Img0) }

SeqsUpTo(S, n) == UNION {[1..k -> S] : k \in 0..n}

VendorPage(markdown, images, dimensions) ==
  [index |-> 0, markdown |-> markdown, images |-> images, dimensions |-> dimensions]

\* one image, every shape of its box and of the page dimensions
GeometryPages ==
  { VendorPage(ImageMarkdown(Img0, Img0), <<VendorImage(Img0, JpegDataUrl, box)>>, dim) :
      box \in Boxes, dim \in DimensionChoices }

\* up to MaxImages images, every id and payload, repeated ids included
RichImages == {VendorImage(id, pl, TypicalBox) : id \in ImageIds, pl \in Payloads}
RichPages ==
  { VendorPage(md, imgs, Null) :
      md \in RichMarkdowns, imgs \in SeqsUpTo(RichImages, MaxImages) }

\* the pages of a document of several pages: no image or one
LightImages == {VendorImage(Img0, JpegDataUrl, TypicalBox), VendorImage(Img1, NoPayload, TypicalBox)}
LightPages ==
  { VendorPage(md, imgs, Null) :
      md \in LightMarkdowns, imgs \in {<<>>} \cup {<<i>> : i \in LightImages} }

VendorDoc(pages) ==
  [ pages |-> [p \in 1..Len(pages) |-> [pages[p] EXCEPT !.index = p - 1]],
    model |-> <<"mistral", "-", "ocr", "-", "2503">>,
    usageInfo |-> Some([pagesProcessed |-> Some(Len(pages)), docSizeBytes |-> Null]) ]

\* what mistral.ocr.process may answer: one page (GeometryPages, RichPages), no
\* page, or 2..MaxPages pages of LightPages
VendorDocs ==
  {VendorDoc(<<pg>>) : pg \in GeometryPages \cup RichPages}
    \cup {VendorDoc(pgs) : pgs \in UNION {[1..n -> LightPages] : n \in {0} \cup 2..MaxPages}}

FileNames == {<<"report", ".", "pdf">>}

\* ------------------------------------------------------------------- state
VARIABLES
  vercel,       \* process.env.VERCEL === "1"
  pc,           \* where the POST handler of /api/parse-pdf stands
  request,      \* the form fields of the request being served
  session,      \* sessionId of the request, <<>> before it is drawn
  uuids,        \* how many uuidv4() values the process has drawn
  calls,        \* the vendor calls issued, in order
  ocr,          \* <<ocrResponse>> once mistral.ocr.process has answered
  task,         \* per page: the state of its async callback in processOcrResponse
  finishOrder,  \* the pages in the order their callbacks returned
  dirs,         \* the session directories under public/assets/ocr-images
  files,        \* the files in those directories
  blobs,        \* the objects put to the blob store
  mockVia,      \* "none", or why createMockResponse runs: "sample" | "fallback"
  mockSaved,    \* savedImages of the storeImagesFromMap call of createMockResponse
  outerCatch,   \* what the outer catch of the handler caught, "none" so far
  response,     \* <<the HTTP response>> once the handler has returned
  peer,         \* a second request served by the same process at the same time
  wrote,        \* per request, the paths it wrote in the asset directory or the blob store
  chat,         \* the chat endpoint: its last request body and what it gave streamText
  store,        \* the last call of getStoredImagesBySession / deleteStoredImagesBySession
  client,       \* the React state of the page component Home
  runs          \* the invocations of handleProcessFile of the page, in the order they began

vars == <<vercel, pc, request, session, uuids, calls, ocr, task, finishOrder,
          dirs, files, blobs, mockVia, mockSaved, outerCatch, response, peer, wrote, chat, store,
          client, runs>>

\* no second request / a second request that has just arrived
AbsentPeer == [st |-> "absent", session |-> <<>>]
ArrivedPeer == [st |-> "idle", session |-> <<>>]

\* useState(null), useState(false), useState(null), useState(null), useState(null)
HomeInit ==
  [file |-> Null, isSample |-> FALSE, processingStage |-> Null, results |-> Null, error |-> Null]

IdleTask == [st |-> "idle", k |-> 1, savedImages |-> <<>>, failed |-> {}, result |-> <<>>]

HandlerInit ==
  /\ vercel \in BOOLEAN
  /\ pc = "idle"
  /\ request = [hasPdf |-> FALSE, isSample |-> FALSE, fileName |-> <<>>]
  /\ session = <<>>
  /\ uuids = 0
  /\ calls = <<>>
  /\ ocr = <<>>
  /\ task = <<>>
  /\ finishOrder = <<>>
  /\ dirs = {}
  /\ files = {}
  /\ blobs = {}
  /\ mockVia = "none"
  /\ mockSaved = <<>>
  /\ outerCatch = "none"
  /\ response = <<>>
  /\ wrote = [main |-> {}, peer |-> {}]
  /\ chat = [st |-> "idle"]
  /\ store = [op |-> "none"]
  /\ client = HomeInit
  /\ runs = <<>>

\* one request
Init == HandlerInit /\ peer = AbsentPeer

\* two requests in flight
InitTwo == HandlerInit /\ peer = ArrivedPeer

\* ------------------------------------------------------ file system, blobs
\* mutant: the store never takes the blob branch
isVercelEnvironmentNever == FALSE

\* storeImagesFromMap: process.env.VERCEL === "1"
isVercelEnvironment == vercel

\* mutant: every session shares the asset directory itself
SessionDirShared(sess) == <<>>

\* path.join(ASSET_DIR, session), relative to ASSET_DIR
SessionDir(sess) == sess

\* path.join(sessionDir, fileName)
FilePath(dir, name) == dir \o Slash \o name

\* fs.writeFileSync: creates the file or replaces its content
WriteFile(fs, dir, name, content) ==
  {f \in fs : ~(f.dir = dir /\ f.name = name)}
    \cup {[dir |-> dir, name |-> name, content |-> content]}

\* JSON.stringify({ sessionId, createdAt, imageCount })
SessionInfoJson(sess, savedImages) ==
  <<"{sessionId:">> \o sess \o <<",imageCount:", ToString(Len(savedImages)), "}">>

\* the object storeImageToBlob puts
ImageBlob(imageId, base64Data, sess, n) ==
  [ pathname |-> BlobFileName(imageId, base64Data, sess, n),
    content |-> extractBase64Data(base64Data) ]

\* the descriptor of a successful save, on the storage target of this process
SavedAsset(imageId, base64Data, sess, n) ==
  IF isVercelEnvironment THEN storeImageToBlob(imageId, base64Data, sess, n)
  ELSE storeImageToFileSystem(imageId, base64Data, sess, n)

\* ---------------------------------------------------------- HTTP responses
Json(status, body) == <<[status |-> status, body |-> body]>>

ErrorNoPdf == Json(400, [error |-> <<"No PDF file provided">>])
ErrorFailed == Json(500, [error |-> <<"Failed to process PDF">>, message |-> <<"error.message">>])

\* ------------------------------------------------------- POST /api/parse-pdf
\* mutant: the session id is drawn before the form is looked at
ReceiveDrawsSessionFirst ==
  /\ pc = "idle"
  /\ session' = Uuid4(uuids + 1)
  /\ uuids' = uuids + 1
  /\ \E hasPdf \in BOOLEAN, isSample \in BOOLEAN, fileName \in FileNames :
       /\ request' = [hasPdf |-> hasPdf, isSample |-> isSample,
                      fileName |-> IF hasPdf THEN fileName ELSE <<>>]
       /\ IF ~hasPdf
          THEN /\ response' = ErrorNoPdf
               /\ pc' = "done"
               /\ UNCHANGED mockVia
          ELSE /\ pc' = IF isSample THEN "mockFetch" ELSE "upload"
               /\ mockVia' = IF isSample THEN "sample" ELSE "none"
               /\ UNCHANGED response
  /\ UNCHANGED <<client, runs, store, chat, peer, wrote, vercel, calls, ocr, task, finishOrder, dirs, files, blobs,
                 mockSaved, outerCatch>>

\* lines 193-211: read the form, draw the session id, branch on isSample
Receive ==
  /\ pc = "idle"
  /\ \E hasPdf \in BOOLEAN, isSample \in BOOLEAN, fileName \in FileNames :
       /\ request' = [hasPdf |-> hasPdf, isSample |-> isSample,
                      fileName |-> IF hasPdf THEN fileName ELSE <<>>]
       /\ IF ~hasPdf
          THEN /\ response' = ErrorNoPdf
               /\ pc' = "done"
               /\ UNCHANGED <<session, uuids, mockVia>>
          ELSE /\ session' = Uuid4(uuids + 1)
               /\ uuids' = uuids + 1
               /\ pc' = IF isSample THEN "mockFetch" ELSE "upload"
               /\ mockVia' = IF isSample THEN "sample" ELSE "none"
               /\ UNCHANGED response
  /\ UNCHANGED <<client, runs, store, chat, peer, wrote, vercel, calls, ocr, task, finishOrder, dirs, files, blobs,
                 mockSaved, outerCatch>>

\* mutant: the inner catch surfaces the vendor error instead of falling back
FallBackSurfacesError ==
  /\ pc' = "done"
  /\ mockVia' = "fallback"
  /\ response' = ErrorFailed

\* the inner catch: log, then createMockResponse(pdfFile.name, sessionId)
FallBack ==
  /\ pc' = "mockFetch"
  /\ mockVia' = "fallback"
  /\ UNCHANGED response

\* mutant: a failed upload is tried once more
UploadRetries ==
  /\ pc = "upload"
  /\ calls' = Append(calls, "upload")
  /\ \/ pc' = "signedUrl" /\ UNCHANGED <<mockVia, response>>
     \/ FallBack
     \/ Len(calls) < 1 /\ UNCHANGED <<pc, mockVia, response>>
  /\ UNCHANGED <<client, runs, store, chat, peer, wrote, vercel, request, session, uuids, ocr, task, finishOrder,
                 dirs, files, blobs, mockSaved, outerCatch>>

\* mistral.files.upload
Upload ==
  /\ pc = "upload"
  /\ calls' = Append(calls, "upload")
  /\ \/ pc' = "signedUrl" /\ UNCHANGED <<mockVia, response>>
     \/ FallBack
  /\ UNCHANGED <<client, runs, store, chat, peer, wrote, vercel, request, session, uuids, ocr, task, finishOrder,
                 dirs, files, blobs, mockSaved, outerCatch>>

\* mistral.files.getSignedUrl
SignedUrl ==
  /\ pc = "signedUrl"
  /\ calls' = Append(calls, "signedUrl")
  /\ \/ pc' = "ocr" /\ UNCHANGED <<mockVia, response>>
     \/ FallBack
  /\ UNCHANGED <<client, runs, store, chat, peer, wrote, vercel, request, session, uuids, ocr, task, finishOrder,
                 dirs, files, blobs, mockSaved, outerCatch>>

\* mistral.ocr.process, then the call of processOcrResponse
OcrProcess ==
  /\ pc = "ocr"
  /\ calls' = Append(calls, "ocr")
  /\ \/ \E doc \in VendorDocs :
          /\ ocr' = <<doc>>
          /\ task' = [p \in 1..Len(doc.pages) |-> IdleTask]
          /\ pc' = "normalize"
          /\ UNCHANGED <<mockVia, response>>
     \/ FallBack /\ UNCHANGED <<ocr, task>>
  /\ UNCHANGED <<client, runs, store, chat, peer, wrote, vercel, request, session, uuids, finishOrder,
                 dirs, files, blobs, mockSaved, outerCatch>>

\* ------------------------------------- processOcrResponse: the page callbacks
\* a page callback runs up to its await of storeImagesFromMap; the callbacks are
\* started in page order; storeImagesFromMap begins with ensureDirectoryExists
PageStart(p) ==
  /\ pc = "normalize"
  /\ p \in 1..Len(task)
  /\ task[p].st = "idle"
  /\ \A q \in 1..(p - 1) : task[q].st # "idle"
  /\ \/ /\ isVercelEnvironment \/ SessionDir(session) \in dirs
        /\ task' = [task EXCEPT ![p].st = "storing"]
        /\ UNCHANGED dirs
     \/ /\ ~isVercelEnvironment /\ SessionDir(session) \notin dirs
        /\ dirs' = dirs \cup {SessionDir(session)}
        /\ task' = [task EXCEPT ![p].st = "storing"]
     \/ /\ ~isVercelEnvironment /\ SessionDir(session) \notin dirs
        /\ task' = [task EXCEPT ![p].st = "rejected"]
        /\ UNCHANGED dirs
  /\ UNCHANGED <<client, runs, store, chat, peer, wrote, vercel, pc, request, session, uuids, calls, ocr, finishOrder,
                 files, blobs, mockVia, mockSaved, outerCatch, response>>

\* mutant: the first failed save makes storeImagesFromMap throw
SaveImageFailureRejects(p) ==
  /\ p \in 1..Len(task)
  /\ task[p].st = "storing"
  /\ LET imageMap == ImageMapOf(ocr[1].pages[p])
         t == task[p]
     IN /\ t.k <= Len(imageMap)
        /\ uuids' = uuids + 1
        /\ LET id == imageMap[t.k][1]
               data == imageMap[t.k][2]
           IN \/ /\ task' = [task EXCEPT
                       ![p].k = t.k + 1,
                       ![p].savedImages =
                          MapPut(t.savedImages, id, SavedAsset(id, data, session, uuids + 1))]
                 /\ IF isVercelEnvironment
                    THEN /\ blobs' = blobs \cup {ImageBlob(id, data, session, uuids + 1)}
                         /\ wrote' = [wrote EXCEPT !.main =
                                        @ \cup {BlobFileName(id, data, session, uuids + 1)}]
                         /\ UNCHANGED files
                    ELSE /\ files' = WriteFile(files, SessionDir(session),
                                       AssetFileName(id, data, uuids + 1),
                                       extractBase64Data(data))
                         /\ wrote' = [wrote EXCEPT !.main =
                                        @ \cup {FilePath(SessionDir(session),
                                                         AssetFileName(id, data, uuids + 1))}]
                         /\ UNCHANGED blobs
              \/ /\ task' = [task EXCEPT ![p].st = "rejected",
                                         ![p].failed = t.failed \cup {id}]
                 /\ UNCHANGED <<files, blobs, wrote>>
  /\ UNCHANGED <<client, runs, store, chat, peer, vercel, pc, request, session, calls, ocr, finishOrder,
                 dirs, mockVia, mockSaved, outerCatch, response>>

\* one turn of the for loop of storeImagesFromMap: the save of the next entry of
\* imageMap succeeds and is recorded, or throws and is logged
SaveImage(p) ==
  /\ p \in 1..Len(task)
  /\ task[p].st = "storing"
  /\ LET imageMap == ImageMapOf(ocr[1].pages[p])
         t == task[p]
     IN /\ t.k <= Len(imageMap)
        /\ uuids' = uuids + 1
        /\ LET id == imageMap[t.k][1]
               data == imageMap[t.k][2]
           IN \/ /\ task' = [task EXCEPT
                       ![p].k = t.k + 1,
                       ![p].savedImages =
                          MapPut(t.savedImages, id, SavedAsset(id, data, session, uuids + 1))]
                 /\ IF isVercelEnvironment
                    THEN /\ blobs' = blobs \cup {ImageBlob(id, data, session, uuids + 1)}
                         /\ wrote' = [wrote EXCEPT !.main =
                                        @ \cup {BlobFileName(id, data, session, uuids + 1)}]
                         /\ UNCHANGED files
                    ELSE /\ files' = WriteFile(files, SessionDir(session),
                                       AssetFileName(id, data, uuids + 1),
                                       extractBase64Data(data))
                         /\ wrote' = [wrote EXCEPT !.main =
                                        @ \cup {FilePath(SessionDir(session),
                                                         AssetFileName(id, data, uuids + 1))}]
                         /\ UNCHANGED blobs
              \/ /\ task' = [task EXCEPT ![p].k = t.k + 1,
                                         ![p].failed = t.failed \cup {id}]
                 /\ UNCHANGED <<files, blobs, wrote>>
  /\ UNCHANGED <<client, runs, store, chat, peer, vercel, pc, request, session, calls, ocr, finishOrder,
                 dirs, mockVia, mockSaved, outerCatch, response>>

\* the end of storeImagesFromMap (session-info.json on the file system) and the
\* rest of the page callback: markdown rewrite, image urls, the page object
PageFinish(p) ==
  /\ p \in 1..Len(task)
  /\ task[p].st = "storing"
  /\ task[p].k > Len(ImageMapOf(ocr[1].pages[p]))
  /\ \/ /\ files' = IF isVercelEnvironment THEN files
                    ELSE WriteFile(files, SessionDir(session), SessionInfoName,
                                   SessionInfoJson(session, task[p].savedImages))
        /\ wrote' = IF isVercelEnvironment THEN wrote
                    ELSE [wrote EXCEPT !.main =
                            @ \cup {FilePath(SessionDir(session), SessionInfoName)}]
        /\ task' = [task EXCEPT
              ![p].st = "done",
              ![p].result = <<ProcessPage(ocr[1].pages[p], task[p].savedImages)>>]
        /\ finishOrder' = Append(finishOrder, p)
     \/ /\ ~isVercelEnvironment
        /\ task' = [task EXCEPT ![p].st = "rejected"]
        /\ UNCHANGED <<files, finishOrder, wrote>>
  /\ UNCHANGED <<client, runs, store, chat, peer, vercel, pc, request, session, uuids, calls, ocr,
                 dirs, blobs, mockVia, mockSaved, outerCatch, response>>

\* Promise.all resolved: combine the pages and answer
Combine ==
  /\ pc = "normalize"
  /\ \A p \in 1..Len(task) : task[p].st = "done"
  /\ response' = Json(200, CombinePages(ocr[1],
                        PromiseAllOrder([p \in 1..Len(task) |-> task[p].result[1]],
                                        finishOrder),
                        session))
  /\ pc' = "done"
  /\ UNCHANGED <<client, runs, store, chat, peer, wrote, vercel, request, session, uuids, calls, ocr, task, finishOrder,
                 dirs, files, blobs, mockVia, mockSaved, outerCatch>>

\* Promise.all rejected: processOcrResponse throws into the inner catch
NormalizeReject ==
  /\ pc = "normalize"
  /\ \A p \in 1..Len(task) : task[p].st # "idle"
  /\ \E p \in 1..Len(task) : task[p].st = "rejected"
  /\ FallBack
  /\ UNCHANGED <<client, runs, store, chat, peer, wrote, vercel, request, session, uuids, calls, ocr, task, finishOrder,
                 dirs, files, blobs, mockSaved, outerCatch>>

\* mutant: the outer catch lets the error escape the handler
OuterCatchRethrows(cause) ==
  /\ outerCatch' = cause
  /\ pc' = "done"
  /\ UNCHANGED response

\* the outer catch: log, then answer 500 "Failed to process PDF"
OuterCatch(cause) ==
  /\ outerCatch' = cause
  /\ response' = ErrorFailed
  /\ pc' = "done"

\* --------------------------------------------- createMockResponse, in steps
\* fetch(pmiGraphUrl) and response.arrayBuffer()
MockFetch ==
  /\ pc = "mockFetch"
  /\ \/ pc' = "mockStore" /\ UNCHANGED <<response, outerCatch>>
     \/ OuterCatch("fetch")
  /\ UNCHANGED <<client, runs, store, chat, peer, wrote, vercel, request, session, uuids, calls, ocr, task, finishOrder,
                 dirs, files, blobs, mockVia, mockSaved>>

\* storeImagesFromMap({ pmi_graph: dataUrl }, sessionId) up to the end of its loop
MockSave ==
  /\ pc = "mockStore"
  /\ \/ /\ ~isVercelEnvironment /\ SessionDir(session) \notin dirs
        /\ OuterCatch("mkdir")
        /\ UNCHANGED <<uuids, dirs, files, blobs, mockSaved, wrote>>
     \/ /\ pc' = "mockInfo"
        /\ uuids' = uuids + 1
        /\ dirs' = IF isVercelEnvironment THEN dirs ELSE dirs \cup {SessionDir(session)}
        /\ \/ /\ mockSaved' = MapPut(mockSaved, PmiGraphId,
                                SavedAsset(PmiGraphId, MockDataUrl, session, uuids + 1))
              /\ IF isVercelEnvironment
                 THEN /\ blobs' = blobs \cup
                           {ImageBlob(PmiGraphId, MockDataUrl, session, uuids + 1)}
                      /\ wrote' = [wrote EXCEPT !.main = @ \cup
                           {BlobFileName(PmiGraphId, MockDataUrl, session, uuids + 1)}]
                      /\ UNCHANGED files
                 ELSE /\ files' = WriteFile(files, SessionDir(session),
                                    AssetFileName(PmiGraphId, MockDataUrl, uuids + 1),
                                    extractBase64Data(MockDataUrl))
                      /\ wrote' = [wrote EXCEPT !.main = @ \cup
                           {FilePath(SessionDir(session),
                                     AssetFileName(PmiGraphId, MockDataUrl, uuids + 1))}]
                      /\ UNCHANGED blobs
           \/ UNCHANGED <<mockSaved, files, blobs, wrote>>
        /\ UNCHANGED <<response, outerCatch>>
  /\ UNCHANGED <<client, runs, store, chat, peer, vercel, request, session, calls, ocr, task, finishOrder, mockVia>>

\* session-info.json, then the mock object is returned and sent
MockFinish ==
  /\ pc = "mockInfo"
  /\ \/ /\ files' = IF isVercelEnvironment THEN files
                    ELSE WriteFile(files, SessionDir(session), SessionInfoName,
                                   SessionInfoJson(session, mockSaved))
        /\ wrote' = IF isVercelEnvironment THEN wrote
                    ELSE [wrote EXCEPT !.main =
                            @ \cup {FilePath(SessionDir(session), SessionInfoName)}]
        /\ response' = Json(200, createMockResponse(request.fileName, session, mockSaved))
        /\ pc' = "done"
        /\ UNCHANGED outerCatch
     \/ /\ ~isVercelEnvironment
        /\ OuterCatch("sessionInfo")
        /\ UNCHANGED <<files, wrote>>
  /\ UNCHANGED <<client, runs, store, chat, peer, vercel, request, session, uuids, calls, ocr, task, finishOrder,
                 dirs, blobs, mockVia, mockSaved>>

Next ==
  \/ Receive
  \/ Upload
  \/ SignedUrl
  \/ OcrProcess
  \/ \E p \in 1..MaxPages : PageStart(p)
  \/ \E p \in 1..MaxPages : SaveImage(p)
  \/ \E p \in 1..MaxPages : PageFinish(p)
  \/ Combine
  \/ NormalizeReject
  \/ MockFetch
  \/ MockSave
  \/ MockFinish

Spec == Init /\ [][Next]_vars

\* some step of the handler is ready: the handler has not returned, or a page
\* callback of processOcrResponse is still pending (ENABLED Next, written out)
HandlerCanStep ==
  \/ pc \in {"idle", "upload", "signedUrl", "ocr", "mockFetch", "mockStore", "mockInfo"}
  \/ pc = "normalize" /\ \E p \in 1..Len(task) : task[p].st = "idle"
  \/ \E p \in 1..Len(task) : task[p].st = "storing"
  \/ pc = "normalize" /\ \A p \in 1..Len(task) : task[p].st = "done"
  \/ /\ pc = "normalize"
     /\ \A p \in 1..Len(task) : task[p].st # "idle"
     /\ \E p \in 1..Len(task) : task[p].st = "rejected"

\* the event loop runs every continuation that is ready, and every awaited call
\* (vendor, fetch, storage) settles: weak fairness of the handler's steps, each of
\* which moves pc or a page callback
FairSpec ==
  Init /\ [][Next]_vars /\ ([]<>(~HandlerCanStep) \/ []<><<TRUE>>_<<pc, task>>)

\* --------------------------------------------- a second request in flight
\* the second request draws its session id (route.ts line 204)
PeerReceive ==
  /\ peer.st = "idle"
  /\ peer' = [st |-> "storing", session |-> Uuid4(uuids + 1)]
  /\ uuids' = uuids + 1
  /\ UNCHANGED <<client, runs, store, chat, wrote, vercel, pc, request, session, calls, ocr, task, finishOrder,
                 dirs, files, blobs, mockVia, mockSaved, outerCatch, response>>

\* the second request runs storeImagesFromMap on a one-image map under its own
\* session id, every save succeeding
PeerStore ==
  /\ peer.st = "storing"
  /\ peer' = [peer EXCEPT !.st = "done"]
  /\ uuids' = uuids + 1
  /\ LET sess == peer.session
         name == AssetFileName(Img0, JpegDataUrl, uuids + 1)
         saved == <<<<Img0, SavedAsset(Img0, JpegDataUrl, sess, uuids + 1)>>>>
     IN IF isVercelEnvironment
        THEN /\ blobs' = blobs \cup {ImageBlob(Img0, JpegDataUrl, sess, uuids + 1)}
             /\ wrote' = [wrote EXCEPT !.peer =
                            @ \cup {BlobFileName(Img0, JpegDataUrl, sess, uuids + 1)}]
             /\ UNCHANGED <<dirs, files>>
        ELSE /\ dirs' = dirs \cup {SessionDir(sess)}
             /\ files' = WriteFile(WriteFile(files, SessionDir(sess), name,
                                             extractBase64Data(JpegDataUrl)),
                                   SessionDir(sess), SessionInfoName,
                                   SessionInfoJson(sess, saved))
             /\ wrote' = [wrote EXCEPT !.peer =
                            @ \cup {FilePath(SessionDir(sess), name),
                                    FilePath(SessionDir(sess), SessionInfoName)}]
             /\ UNCHANGED blobs
  /\ UNCHANGED <<client, runs, store, chat, vercel, pc, request, session, calls, ocr, task, finishOrder,
                 mockVia, mockSaved, outerCatch, response>>

NextTwo ==
  \/ Next
  \/ PeerReceive
  \/ PeerStore

SpecTwo == InitTwo /\ [][NextTwo]_vars

\* ------------------------------------- the asset store: listing and deleting
\* one entry of the list getStoredImagesBySession returns, computed from a file name
ListedAsset(sessionId, fileName) ==
  LET fileNameParts == Split(fileName, Dot)
      extension == StrOr(fileNameParts[Len(fileNameParts)], PngExt)
      id == Join(SubSeq(fileNameParts, 1, Len(fileNameParts) - 1), Dot)
      originalIdParts == Split(id, Hyphen)
      originalId == StrOr(Join(SubSeq(originalIdParts, 1, Len(originalIdParts) - 1), Hyphen), id)
  IN [ id |-> id,
       originalId |-> originalId,
       filePath |-> FilePath(SessionDir(sessionId), fileName),
       publicPath |-> PublicDir(sessionId) \o fileName,
       mimeType |-> <<"image", "/">> \o extension ]

\* fs.readdirSync(sessionDir), as a set: the order is the directory's
ReadDir(dir) == {f.name : f \in {g \in files : g.dir = dir}}

\* the assets getStoredImagesBySession(sessionId) returns, as a set
getStoredImagesBySession(sessionId) ==
  IF vercel THEN {}
  ELSE IF SessionDir(sessionId) \notin dirs THEN {}
  ELSE IF SessionInfoName \notin ReadDir(SessionDir(sessionId)) THEN {}
  ELSE {ListedAsset(sessionId, fileName) :
          fileName \in {n \in ReadDir(SessionDir(sessionId)) :
                          n # SessionInfoName /\ n[1] # "."}}

\* mutant: the directory is left in place when the delete reports success
DeleteOutcomesKeepsDirectory(sessionId) ==
  IF vercel \/ SessionDir(sessionId) \notin dirs
  THEN {[returned |-> FALSE, dirs |-> dirs, files |-> files]}
  ELSE {[returned |-> TRUE, dirs |-> dirs, files |-> files]}

\* what deleteStoredImagesBySession(sessionId) may return and leave behind: false
\* on Vercel or without the directory; else every file unlinked and the directory
\* removed (true), or an unlink or the rmdir throws after some files are gone (false)
DeleteOutcomes(sessionId) ==
  LET dir == SessionDir(sessionId)
      inDir == {f \in files : f.dir = dir}
  IN IF vercel \/ dir \notin dirs
     THEN {[returned |-> FALSE, dirs |-> dirs, files |-> files]}
     ELSE {[returned |-> TRUE, dirs |-> dirs \ {dir}, files |-> files \ inDir]}
            \cup {[returned |-> FALSE, dirs |-> dirs, files |-> files \ gone] :
                    gone \in SUBSET inDir}

\* a session id no request of this process has drawn
UnknownSession == Uuid4(0)
\* the session ids the store is asked about
AskedSessions == {UnknownSession} \cup (IF session = <<>> THEN {} ELSE {session})
\* the handler has returned and no page callback is pending
Quiescent ==
  /\ pc = "done"
  /\ \A p \in 1..Len(task) : task[p].st \in {"done", "rejected"}

\* a call of getStoredImagesBySession between requests
ListStored ==
  /\ Quiescent
  /\ \E sessionId \in AskedSessions :
       store' = [op |-> "list", sessionId |-> sessionId,
                 listed |-> getStoredImagesBySession(sessionId)]
  /\ UNCHANGED <<client, runs, chat, peer, wrote, vercel, pc, request, session, uuids, calls, ocr, task,
                 finishOrder, dirs, files, blobs, mockVia, mockSaved, outerCatch, response>>

\* a call of deleteStoredImagesBySession between requests
DeleteStored ==
  /\ Quiescent
  /\ \E sessionId \in AskedSessions :
       \E outcome \in DeleteOutcomes(sessionId) :
         /\ store' = [op |-> "delete", sessionId |-> sessionId,
                      returned |-> outcome.returned]
         /\ dirs' = outcome.dirs
         /\ files' = outcome.files
  /\ UNCHANGED <<client, runs, chat, peer, wrote, vercel, pc, request, session, uuids, calls, ocr, task,
                 finishOrder, blobs, mockVia, mockSaved, outerCatch, response>>

NextStore ==
  \/ Next
  \/ ListStored
  \/ DeleteStored

SpecStore == Init /\ [][NextStore]_vars

\* ------------------------------------------------------------ POST /api/chat
\* a JavaScript value is truthy: neither undefined nor the empty string
Truthy(x) == x # Null /\ x[1] # <<>>

DefaultSystemMessage == <<"You are a helpful assistant.">>
SystemIntro ==
  <<"You are a helpful assistant that answers questions about the following document content.",
    "Use this content to provide accurate answers:">>
SystemOutro ==
  <<"For data visualization:", "- Proactively apply visualizations whenever possible.",
    "- Use ![alt text](/assets/ocr-images/...jpeg)   for image suggestions.">>
ChatModel == <<"gemini", "-", "2", ".", "5", "-", "flash">>

\* mutant: the document is left out of the system prompt
systemMessageWithoutDocument(documentContent) == DefaultSystemMessage

\* const systemMessage = documentContent ? `...${documentContent}...` : "You are a helpful assistant."
systemMessage(documentContent) ==
  IF Truthy(documentContent)
  THEN SystemIntro \o documentContent[1] \o SystemOutro
  ELSE DefaultSystemMessage

\* the request bodies of the chat endpoint: documentContent absent, empty or a text
DocTokens == {"# Report", "Revenue grew 12%", "![img-0.jpeg](/assets/ocr-images/s/img-0.jpeg)"}
DocumentContents ==
  {Null} \cup {Some(d) : d \in UNION {[1..n -> DocTokens] : n \in 0..MaxDocTokens}}
ChatMessage ==
  { [role |-> "user", content |-> <<"Summarize the document">>],
    [role |-> "user", content |-> <<"What is on page 2?">>],
    [role |-> "assistant", content |-> <<"It is a report.">>] }
ChatMessages == UNION {[1..n -> ChatMessage] : n \in 0..MaxMessages}

\* the chat handler: read the body, build the system prompt, call streamText
ChatPost ==
  /\ \E messages \in ChatMessages, documentContent \in DocumentContents :
       chat' = [ st |-> "streaming",
                 body |-> [messages |-> messages, documentContent |-> documentContent],
                 streamText |-> [ model |-> ChatModel,
                                  system |-> systemMessage(documentContent),
                                  messages |-> messages ] ]
  /\ UNCHANGED <<client, runs, store, peer, wrote, vercel, pc, request, session, uuids, calls, ocr, task,
                 finishOrder, dirs, files, blobs, mockVia, mockSaved, outerCatch, response>>

NextChat ==
  \/ ChatPost

SpecChat == Init /\ [][NextChat]_vars

\* ------------------------------------------------------- the page (client)
\* the PDFs the user can pick
ClientFiles == {<<"a", ".", "pdf">>, <<"b", ".", "pdf">>}

\* handleFileSelected(selectedFile, fileIsSample): the uploader and the sample
\* option are rendered whatever the processing stage is
handleFileSelected ==
  /\ \E selectedFile \in ClientFiles, fileIsSample \in BOOLEAN :
       client' = [client EXCEPT !.file = Some(selectedFile), !.isSample = fileIsSample,
                                !.results = Null, !.error = Null]
  /\ UNCHANGED <<runs, store, chat, peer, wrote, vercel, pc, request, session, uuids, calls, ocr,
                 task, finishOrder, dirs, files, blobs, mockVia, mockSaved, outerCatch, response>>

\* {file && !processingStage && <Button onClick={handleProcessFile}>}
ProcessButtonShown == client.file # Null /\ client.processingStage = Null

\* {error && <ErrorDisplay onRetry={handleProcessFile} />}
RetryShown == client.error # Null

\* what the request of a run carries: formData.append("pdf", file), ("isSample", isSample)
FormDataOf(c) == [pdf |-> c.file[1], isSample |-> c.isSample]

\* handleProcessFile up to its first await: the early return without a file,
\* else error cleared, stage "uploading" and the form data built from the
\* file selected at this moment
handleProcessFile ==
  /\ Len(runs) < MaxRuns
  /\ ProcessButtonShown \/ RetryShown \/ client.file = Null
  /\ IF client.file = Null
     THEN /\ runs' = Append(runs, [st |-> "done", formData |-> Null, outcome |-> "noFile"])
          /\ UNCHANGED client
     ELSE /\ runs' = Append(runs, [st |-> "uploading", formData |-> Some(FormDataOf(client)),
                                   outcome |-> "none"])
          /\ client' = [client EXCEPT !.error = Null, !.processingStage = Some("uploading")]
  /\ UNCHANGED <<store, chat, peer, wrote, vercel, pc, request, session, uuids, calls, ocr,
                 task, finishOrder, dirs, files, blobs, mockVia, mockSaved, outerCatch, response>>

\* the 1500 ms timer of run i fires: setProcessingStage("processing")
UploadTimer(i) ==
  /\ runs[i].st = "uploading"
  /\ runs' = [runs EXCEPT ![i].st = "processing"]
  /\ client' = [client EXCEPT !.processingStage = Some("processing")]
  /\ UNCHANGED <<store, chat, peer, wrote, vercel, pc, request, session, uuids, calls, ocr,
                 task, finishOrder, dirs, files, blobs, mockVia, mockSaved, outerCatch, response>>

\* the 2000 ms timer of run i fires: setProcessingStage("extracting"), and the
\* request leaves with the form data of the run
ProcessTimer(i) ==
  /\ runs[i].st = "processing"
  /\ runs' = [runs EXCEPT ![i].st = "extracting"]
  /\ client' = [client EXCEPT !.processingStage = Some("extracting")]
  /\ UNCHANGED <<store, chat, peer, wrote, vercel, pc, request, session, uuids, calls, ocr,
                 task, finishOrder, dirs, files, blobs, mockVia, mockSaved, outerCatch, response>>

\* the bodies of the non-OK answers: the 400 and the 500 of the parse
\* endpoint (the 500 with a message or an empty one), and a body with neither field
NotOkBodies ==
  { [error |-> Some(<<"No PDF file provided">>), message |-> Null],
    [error |-> Some(<<"Failed to process PDF">>), message |-> Some(<<"Unexpected end of form">>)],
    [error |-> Some(<<"Failed to process PDF">>), message |-> Some(<<>>)],
    [error |-> Null, message |-> Null] }

\* data.message || data.error || "Failed to process PDF"
NotOkMessage(data) ==
  IF Truthy(data.message) THEN data.message[1]
  ELSE IF Truthy(data.error) THEN data.error[1]
  ELSE <<"Failed to process PDF">>

\* what fetch or response.json() reject with
Rejections == {<<"Failed to fetch">>, <<"Unexpected token < in JSON">>}

\* the settled request of a run: an OK answer holding the document parsed from
\* the PDF it carried, a non-OK answer, or a rejection
Settlements(formData) ==
  {[kind |-> "ok", data |-> [parsedFrom |-> formData]]}
    \cup {[kind |-> "notOk", data |-> b] : b \in NotOkBodies}
    \cup {[kind |-> "threw", message |-> m] : m \in Rejections}

\* catch (error): setError({ message: error.message, details: error.stack })
CaughtError(message) == [message |-> message, details |-> <<"Error: ">> \o message]

\* mutant: the stage is reset only when the request succeeded
FetchSettlesWithoutFinally(i) ==
  /\ runs[i].st = "extracting"
  /\ \E s \in Settlements(runs[i].formData[1]) :
       /\ runs' = [runs EXCEPT ![i].st = "done", ![i].outcome = s.kind]
       /\ client' =
            IF s.kind = "ok"
            THEN [client EXCEPT !.results = Some(s.data), !.processingStage = Null]
            ELSE IF s.kind = "notOk"
            THEN [client EXCEPT !.error = Some(CaughtError(NotOkMessage(s.data)))]
            ELSE [client EXCEPT !.error = Some(CaughtError(s.message))]
  /\ UNCHANGED <<store, chat, peer, wrote, vercel, pc, request, session, uuids, calls, ocr,
                 task, finishOrder, dirs, files, blobs, mockVia, mockSaved, outerCatch, response>>

\* the request of run i settles: setResults(data), or the catch block's
\* setError; then finally setProcessingStage(null)
FetchSettles(i) ==
  /\ runs[i].st = "extracting"
  /\ \E s \in Settlements(runs[i].formData[1]) :
       /\ runs' = [runs EXCEPT ![i].st = "done", ![i].outcome = s.kind]
       /\ client' =
            IF s.kind = "ok"
            THEN [client EXCEPT !.results = Some(s.data), !.processingStage = Null]
            ELSE IF s.kind = "notOk"
            THEN [client EXCEPT !.error = Some(CaughtError(NotOkMessage(s.data))),
                                !.processingStage = Null]
            ELSE [client EXCEPT !.error = Some(CaughtError(s.message)),
                                !.processingStage = Null]
  /\ UNCHANGED <<store, chat, peer, wrote, vercel, pc, request, session, uuids, calls, ocr,
                 task, finishOrder, dirs, files, blobs, mockVia, mockSaved, outerCatch, response>>

NextClient ==
  \/ handleFileSelected
  \/ handleProcessFile
  \/ \E i \in 1..Len(runs) : UploadTimer(i)
  \/ \E i \in 1..Len(runs) : ProcessTimer(i)
  \/ \E i \in 1..Len(runs) : FetchSettles(i)

SpecClient == Init /\ [][NextClient]_vars

\* ================================================================== claims
Answered == response # <<>>
Status == response[1].status
Body == response[1].body
\* the handler answered with the object processOcrResponse returned
NormalizedAnswer == Answered /\ mockVia = "none" /\ Status = 200
\* upload, signed-URL request or OCR call of a non-sample request with a PDF failed
VendorCallFailed ==
  request.hasPdf /\ ~request.isSample /\ mockVia = "fallback" /\ ocr = <<>>
MockFields ==
  {"text", "rawText", "sessionId", "pages", "images", "storedAssets", "usage", "model",
   "maxTokens"}
IsMockAnswer ==
  /\ Status = 200
  /\ DOMAIN Body = MockFields
  /\ Body.text = SampleMarkdown(request.fileName)
  /\ Body.sessionId = session
  /\ Len(Body.pages) = 1
  /\ Len(Body.images) = 1
  /\ Body.images[1].id = PmiGraphId
IsFailedAnswer == Status = 500 /\ Body.error = <<"Failed to process PDF">>
SomeSaveFailed == \E p \in 1..Len(task) : task[p].failed # {}
AssetsPrefix(sess) == <<"/", "assets", "/", "ocr", "-", "images", "/">> \o sess \o <<"/">>

\* C1 (as stated): whenever the upload, the signed-URL request or the OCR call of a
\* non-sample request with a PDF failed, the answer is the mock response: HTTP 200,
\* the fields of a sample response, no error field
C1_Original == (Answered /\ VendorCallFailed) => IsMockAnswer

\* C1 (amended): after such a vendor failure the handler builds the mock response;
\* the answer is the mock response (HTTP 200, no error field) when building it
\* succeeds, and HTTP 500 "Failed to process PDF" when building it throws
C1_FallbackToMock ==
  (Answered /\ VendorCallFailed) =>
     IF outerCatch = "none" THEN IsMockAnswer /\ "error" \notin DOMAIN Body
     ELSE IsFailedAnswer

C1_Witness ==
  Answered /\ VendorCallFailed /\ outerCatch = "none" /\ Status = 200
    /\ calls = <<"upload", "signedUrl", "ocr">>

\* C2 (as stated): a failed save of a single image is not recovered individually, so
\* no answer built by the normalization contains a page one of whose saves failed
C2_Original == (Answered /\ SomeSaveFailed) => ~NormalizedAnswer

\* C2 (amended): a failed save of a single image is recovered for that image alone:
\* the document is still normalized, the image keeps its inline data URL (or the
\* placeholder path) as url, the other images of the page are saved, and the
\* fall-back to the mock response is taken only when a vendor call failed or the
\* store call of a page itself threw
C2_PerImageFallback ==
  /\ NormalizedAnswer =>
       \A p \in 1..Len(task) :
         /\ \A i \in 1..Len(Body.pages[p].images) :
              Body.pages[p].images[i].id \in task[p].failed =>
                Body.pages[p].images[i].url = DataUrlOf(ocr[1].pages[p].images[i])
         /\ \A id \in MapKeys(ImageMapOf(ocr[1].pages[p])) \ task[p].failed :
              MapHas(task[p].savedImages, id)
  /\ mockVia = "fallback" =>
       \/ ocr = <<>>
       \/ \E p \in 1..Len(task) : task[p].st = "rejected"

C2_Witness ==
  /\ NormalizedAnswer
  /\ \E p \in 1..Len(task) : task[p].failed # {} /\ Len(task[p].savedImages) > 0

\* C3: in a normalized answer every vendor image without a base64 payload has an
\* image reference with its id whose url, and whose markdown target, is the
\* placeholder path
C3_PlaceholderForAbsentPayload ==
  NormalizedAnswer =>
    \A p \in 1..Len(task) :
      \A i \in 1..Len(ocr[1].pages[p].images) :
        LET im == ocr[1].pages[p].images[i] IN
        im.imageBase64 = <<>> =>
          /\ i <= Len(Body.pages[p].images)
          /\ Body.pages[p].images[i].id = im.id
          /\ Body.pages[p].images[i].url = PlaceholderPath
          /\ Contains(ocr[1].pages[p].markdown, ImageMarkdown(im.id, im.id)) =>
               Contains(Body.pages[p].markdown, ImageMarkdown(im.id, PlaceholderPath))

\* C4: a normalized page has one image reference per vendor image, in the vendor's
\* order, and the id of every reference is a key of the page's image map
C4_OneReferencePerImage ==
  \A p \in 1..Len(task) :
    task[p].st = "done" =>
      LET page == ocr[1].pages[p]
          refs == task[p].result[1].images
      IN /\ Len(refs) = Len(page.images)
         /\ \A i \in 1..Len(refs) :
              /\ refs[i].id = page.images[i].id
              /\ refs[i].id \in MapKeys(ImageMapOf(page))

C4_Witness ==
  \E p \in 1..Len(task) :
    /\ task[p].st = "done"
    /\ Len(ocr[1].pages[p].images) = 2
    /\ ocr[1].pages[p].images[1].id # ocr[1].pages[p].images[2].id
    /\ ocr[1].pages[p].images[1].imageBase64 = <<>>

\* C5 (as stated): on the file system every image reference of a normalized answer
\* has the url /assets/ocr-images/<sessionId>/<file> of a file stored under the
\* session of the same answer
C5_Original ==
  (NormalizedAnswer /\ ~vercel) =>
    \A p \in 1..Len(Body.pages) :
      \A i \in 1..Len(Body.pages[p].images) :
        \E f \in files :
          /\ f.dir = Body.sessionId
          /\ Body.pages[p].images[i].url = AssetsPrefix(Body.sessionId) \o f.name

\* C5 (amended): on the file system every image reference whose save succeeded has
\* the url /assets/ocr-images/<sessionId>/<file> of a file stored under the session
\* of the same answer; a reference whose save failed keeps its inline data URL or
\* the placeholder path
C5_SavedUnderSession ==
  (NormalizedAnswer /\ ~vercel) =>
    \A p \in 1..Len(Body.pages) :
      \A i \in 1..Len(Body.pages[p].images) :
        LET ref == Body.pages[p].images[i] IN
        IF MapHas(task[p].savedImages, ref.id)
        THEN \E f \in files :
               /\ f.dir = Body.sessionId
               /\ ref.url = AssetsPrefix(Body.sessionId) \o f.name
        ELSE ref.url = DataUrlOf(ocr[1].pages[p].images[i])

C5_Witness ==
  /\ NormalizedAnswer /\ ~vercel
  /\ \E p \in 1..Len(task) :
       /\ task[p].failed # {}
       /\ Len(task[p].savedImages) > 0
       /\ Len(Body.pages[p].images) = 2

\* the width and height a page declares, 612 x 792 when it declares none
DeclaredWidth(page) ==
  IF page.dimensions = Null THEN DefaultPageWidth ELSE page.dimensions[1].width
DeclaredHeight(page) ==
  IF page.dimensions = Null THEN DefaultPageHeight ELSE page.dimensions[1].height
\* the number q is n / d
IsQuotient(q, n, d) == d # 0 /\ q.den # 0 /\ q.num * d = n * q.den

\* C6: for every image with its four corner coordinates, on a page of declared
\* (non-zero) width W and height H, the normalized coordinates are x = tlx/W,
\* y = tly/H, width = (brx - tlx)/W, height = (bry - tly)/H
C6_NormalizedCoordinates ==
  \A p \in 1..Len(task) :
    task[p].st = "done" =>
      LET page == ocr[1].pages[p]
          W == DeclaredWidth(page)
          H == DeclaredHeight(page)
      IN \A i \in 1..Len(page.images) :
           LET im == page.images[i]
               c == task[p].result[1].images[i].coordinates
           IN ( /\ im.topLeftX # Null /\ im.topLeftY # Null
                /\ im.bottomRightX # Null /\ im.bottomRightY # Null
                /\ W # 0 /\ H # 0 ) =>
                /\ IsQuotient(c.x, im.topLeftX[1], W)
                /\ IsQuotient(c.y, im.topLeftY[1], H)
                /\ IsQuotient(c.width, im.bottomRightX[1] - im.topLeftX[1], W)
                /\ IsQuotient(c.height, im.bottomRightY[1] - im.topLeftY[1], H)

Occurrences(s, pat) == Cardinality({i \in 1..Len(s) : MatchAt(s, pat, i)})

\* what the markdown of page p refers to for image id: the stored asset's public
\* path when the save succeeded, else the entry of the image map
TargetOf(p, id) ==
  IF MapHas(task[p].savedImages, id)
  THEN MapGet(task[p].savedImages, id).publicPath
  ELSE MapGet(ImageMapOf(ocr[1].pages[p]), id)

RECURSIVE Growth(_, _, _)
\* by how many tokens the rewrite of the first n entries of the image map lengthens
\* the markdown of page p
Growth(p, imageMap, n) ==
  IF n = 0 THEN 0
  ELSE Growth(p, imageMap, n - 1)
       + Occurrences(ocr[1].pages[p].markdown, ImageMarkdown(imageMap[n][1], imageMap[n][1]))
         * (Len(TargetOf(p, imageMap[n][1])) - Len(imageMap[n][1]))

\* C7 (as stated): every `![id](id)` of the vendor markdown, for every image id of
\* the page, is replaced by `![id](<public URL of the persisted asset>)`, and no
\* `![id](id)` remains
C7_Original ==
  \A p \in 1..Len(task) :
    task[p].st = "done" =>
      \A id \in MapKeys(ImageMapOf(ocr[1].pages[p])) :
        Contains(ocr[1].pages[p].markdown, ImageMarkdown(id, id)) =>
          /\ MapHas(task[p].savedImages, id)
          /\ Occurrences(task[p].result[1].markdown,
                         ImageMarkdown(id, MapGet(task[p].savedImages, id).publicPath))
               = Occurrences(ocr[1].pages[p].markdown, ImageMarkdown(id, id))
          /\ ~Contains(task[p].result[1].markdown, ImageMarkdown(id, id))

\* C7 (amended): every `![id](id)` of the vendor markdown, for every image id of
\* the page, is replaced by `![id](<target>)`, where the target is the public URL
\* of the persisted asset when the save of id succeeded and the image's inline
\* data URL (or the placeholder path) when it failed; no `![id](id)` remains and
\* nothing else changes
C7_MarkdownRewritten ==
  \A p \in 1..Len(task) :
    task[p].st = "done" =>
      LET imageMap == ImageMapOf(ocr[1].pages[p])
          vendor == ocr[1].pages[p].markdown
          processed == task[p].result[1].markdown
      IN /\ \A id \in MapKeys(imageMap) :
              /\ Occurrences(processed, ImageMarkdown(id, TargetOf(p, id)))
                   = Occurrences(vendor, ImageMarkdown(id, id))
              /\ ~Contains(processed, ImageMarkdown(id, id))
         /\ Len(processed) = Len(vendor) + Growth(p, imageMap, Len(imageMap))

C7_Witness ==
  \E p \in 1..Len(task) :
    /\ task[p].st = "done"
    /\ task[p].failed # {}
    /\ \E id \in MapKeys(ImageMapOf(ocr[1].pages[p])) :
         /\ MapHas(task[p].savedImages, id)
         /\ Occurrences(ocr[1].pages[p].markdown, ImageMarkdown(id, id)) = 2

VendorMarkdowns == [p \in 1..Len(ocr[1].pages) |-> ocr[1].pages[p].markdown]

\* C8: rawMarkdown of every normalized page is the vendor's markdown of that page,
\* and rawText is those markdowns joined, whatever was saved or failed
C8_RawUntouched ==
  /\ \A p \in 1..Len(task) :
       task[p].st = "done" => task[p].result[1].rawMarkdown = ocr[1].pages[p].markdown
  /\ NormalizedAnswer =>
       /\ \A p \in 1..Len(Body.pages) : Body.pages[p].rawMarkdown = VendorMarkdowns[p]
       /\ Body.rawText = Join(VendorMarkdowns, <<"\n\n">>)

C8_Witness ==
  /\ NormalizedAnswer
  /\ SomeSaveFailed
  /\ \E p \in 1..Len(Body.pages) :
       /\ Body.pages[p].markdown # Body.pages[p].rawMarkdown
       /\ Contains(Body.pages[p].rawMarkdown, ImageMarkdown(Img0, Img0))

\* C9: text and rawText are the pages' processed and raw markdown joined with
\* "\n\n" in the order of the vendor's pages, in whatever order the pages finished
C9_JoinedInVendorOrder ==
  NormalizedAnswer =>
    /\ Len(Body.pages) = Len(ocr[1].pages)
    /\ \A p \in 1..Len(Body.pages) :
         /\ Body.pages[p].index = ocr[1].pages[p].index
         /\ Body.pages[p] = task[p].result[1]
    /\ Body.text = Join([p \in 1..Len(task) |-> task[p].result[1].markdown], <<"\n\n">>)
    /\ Body.rawText = Join(VendorMarkdowns, <<"\n\n">>)

C9_Witness ==
  /\ NormalizedAnswer
  /\ Len(task) >= 2
  /\ finishOrder[1] = 2
  /\ task[1].result[1].markdown # task[2].result[1].markdown

\* the identifier processOcrResponse derives from an image reference's url
DerivedId(ref) ==
  LET fileName == SplitPop(ref.url, <<"/">>) IN
  IF SplitFirst(fileName, <<".">>) = <<>> THEN ref.id ELSE SplitFirst(fileName, <<".">>)

\* C10: storedAssets has no two entries with the same derived id, and the entry of
\* a derived id describes the first image reference, in page-then-image order,
\* that derives it
C10_DedupedKeepingFirst ==
  NormalizedAnswer =>
    LET sa == Body.storedAssets
        refs == Flatten([p \in 1..Len(task) |-> task[p].result[1].images])
    IN /\ \A i, j \in 1..Len(sa) : i # j => sa[i].id # sa[j].id
       /\ \A k \in 1..Len(refs) :
            LET first == CHOOSE j \in 1..k :
                           /\ DerivedId(refs[j]) = DerivedId(refs[k])
                           /\ \A h \in 1..(j - 1) : DerivedId(refs[h]) # DerivedId(refs[k])
            IN \E i \in 1..Len(sa) :
                 /\ sa[i].id = DerivedId(refs[k])
                 /\ sa[i].originalId = refs[first].id
                 /\ sa[i].publicPath = refs[first].url

C10_Witness ==
  /\ NormalizedAnswer
  /\ \E j, k \in 1..Len(Body.images) :
       /\ j < k
       /\ DerivedId(Body.images[j]) = DerivedId(Body.images[k])
       /\ Body.images[j].url # Body.images[k].url

\* C11: a request whose form has no pdf entry is answered with HTTP 400 and error
\* "No PDF file provided"; no session id is drawn for it, no vendor call is issued
\* and nothing is stored
C11_NoPdfRejected ==
  (Answered /\ ~request.hasPdf) =>
     /\ Status = 400
     /\ Body = [error |-> <<"No PDF file provided">>]
     /\ session = <<>> /\ uuids = 0
     /\ calls = <<>>
     /\ dirs = {} /\ files = {} /\ blobs = {}

C11_Witness == Answered /\ ~request.hasPdf /\ Status = 400

\* C12 (as stated): whenever the sample flag is "true" the answer is the mock
\* response and no vendor call was issued
C12_Original ==
  (Answered /\ request.isSample) => (IsMockAnswer /\ calls = <<>>)

\* C12 (amended): for a request with a pdf entry whose sample flag is "true" no
\* vendor call is ever issued, and the answer is the mock response when building
\* it succeeds and HTTP 500 "Failed to process PDF" when building it throws; with
\* no pdf entry the answer is HTTP 400 whatever the flag
C12_SampleSkipsVendor ==
  /\ request.isSample => calls = <<>>
  /\ (Answered /\ request.isSample) =>
        IF ~request.hasPdf THEN Status = 400
        ELSE IF outerCatch = "none" THEN IsMockAnswer /\ mockVia = "sample"
        ELSE IsFailedAnswer

C12_Witness ==
  Answered /\ request.isSample /\ request.hasPdf /\ Status = 200 /\ mockVia = "sample"

\* C13: the store uses one storage target: with VERCEL other than "1" nothing is
\* put to the blob service, with VERCEL = "1" no directory is created and no file
\* is written
C13_OneStorageTarget ==
  /\ ~vercel => blobs = {}
  /\ vercel => (dirs = {} /\ files = {})

C13_Witness ==
  /\ vercel
  /\ blobs # {}
  /\ Answered /\ Status = 200

HasPrefix(s, pre) == Len(s) >= Len(pre) /\ SubSeq(s, 1, Len(pre)) = pre
\* path lies in the directory (the blob folder) of session sess
PathOfSession(path, sess) ==
  IF vercel THEN HasPrefix(path, <<"ocr", "-", "images", "/">> \o sess \o <<"/">>)
  ELSE HasPrefix(path, sess \o <<"/">>)

\* C14: every path a request writes (the saves of every page, those of the
\* fallback mock, session-info.json) lies under the one session id drawn for that
\* request; two requests in flight have different session ids and write disjoint
\* sets of paths
C14_SessionsIsolated ==
  /\ (session # <<>> /\ peer.session # <<>>) => session # peer.session
  /\ \A path \in wrote.main : session # <<>> /\ PathOfSession(path, session)
  /\ \A path \in wrote.peer : peer.session # <<>> /\ PathOfSession(path, peer.session)
  /\ wrote.main \cap wrote.peer = {}

C14_Witness ==
  /\ Answered /\ Status = 200
  /\ mockVia = "fallback" /\ mockSaved # <<>>
  /\ \E p \in 1..Len(task) : task[p].savedImages # <<>>
  /\ wrote.peer # {}
  /\ Cardinality(wrote.main) >= 3

\* C15: the originalCoordinates of every image reference carry the corner
\* coordinates the vendor sent, for every corner the vendor sent (0 included)
C15_OriginalCoordinatesKept ==
  \A p \in 1..Len(task) :
    task[p].st = "done" =>
      LET page == ocr[1].pages[p] IN
      \A i \in 1..Len(page.images) :
        LET im == page.images[i]
            oc == task[p].result[1].images[i].originalCoordinates
        IN /\ im.topLeftX # Null => oc.top_left_x = im.topLeftX[1]
           /\ im.topLeftY # Null => oc.top_left_y = im.topLeftY[1]
           /\ im.bottomRightX # Null => oc.bottom_right_x = im.bottomRightX[1]
           /\ im.bottomRightY # Null => oc.bottom_right_y = im.bottomRightY[1]

\* C16: the chat handler gives the chat model a system prompt that contains the
\* document text verbatim when documentContent is non-empty and is exactly
\* "You are a helpful assistant." when it is absent or empty; the messages of the
\* request are passed on unchanged
C16_DocumentInSystemPrompt ==
  chat.st = "streaming" =>
    LET doc == chat.body.documentContent IN
    /\ IF doc # Null /\ doc[1] # <<>>
       THEN Contains(chat.streamText.system, doc[1])
       ELSE chat.streamText.system = <<"You are a helpful assistant.">>
    /\ chat.streamText.messages = chat.body.messages

C16_Witness ==
  /\ chat.st = "streaming"
  /\ chat.body.documentContent # Null
  /\ Len(chat.body.documentContent[1]) = 2
  /\ Len(chat.body.messages) = 2
  /\ chat.streamText.system # <<"You are a helpful assistant.">>

\* C17: every storedAssets entry of a normalized response agrees with a descriptor
\* the asset store returned for that image: same id, originalId, publicPath and
\* mimeType
C17_StoredAssetsMatchStore ==
  NormalizedAnswer =>
    \A i \in 1..Len(Body.storedAssets) :
      LET e == Body.storedAssets[i] IN
      \E p \in 1..Len(task) :
        /\ MapHas(task[p].savedImages, e.originalId)
        /\ LET d == MapGet(task[p].savedImages, e.originalId)
           IN /\ d.id = e.id
              /\ d.originalId = e.originalId
              /\ d.publicPath = e.publicPath
              /\ d.mimeType = e.mimeType

VendorSteps == <<"upload", "signedUrl", "ocr">>

\* C18: the vendor calls of a request are issued in the order upload, signed-URL
\* request, OCR call, each at most once; normalization starts only after all
\* three; once a step has failed (the inner catch has been entered) no further
\* vendor call is issued and normalization is not started
C18_VendorStepsInOrder ==
  /\ [](/\ Len(calls) <= Len(VendorSteps)
        /\ calls = SubSeq(VendorSteps, 1, Len(calls))
        /\ (ocr # <<>> \/ task # <<>>) => calls = VendorSteps
        /\ VendorCallFailed => (ocr = <<>> /\ task = <<>>))
  /\ [][mockVia = "fallback" => (calls' = calls /\ ocr' = ocr)]_vars

C18_Witness ==
  /\ Answered
  /\ mockVia = "fallback"
  /\ calls = <<"upload", "signedUrl">>

ImageMapKeys(p) == {e[1] : e \in {ImageMapOf(ocr[1].pages[p])[i] : i \in 1..Len(ImageMapOf(ocr[1].pages[p]))}}
SavedKeys(saved) == {saved[i][1] : i \in 1..Len(saved)}

\* C19: in storeImagesFromMap a save that fails is skipped and the loop goes on:
\* when the call returns, its map holds exactly the ids of the image map whose
\* save did not fail, each entry carrying its key as originalId; the step in which
\* a save fails leaves the call running
C19_FailedSaveSkipped ==
  /\ [](\A p \in 1..Len(task) :
          /\ SavedKeys(task[p].savedImages) \cap task[p].failed = {}
          /\ \A i \in 1..Len(task[p].savedImages) :
               task[p].savedImages[i][2].originalId = task[p].savedImages[i][1]
          /\ task[p].st = "done" =>
               SavedKeys(task[p].savedImages) = ImageMapKeys(p) \ task[p].failed)
  /\ [][\A p \in 1..Len(task) :
          (Len(task') = Len(task) /\ task'[p].failed # task[p].failed) =>
             (task'[p].st = "storing" /\ task'[p].k = task[p].k + 1)]_vars

C19_Witness ==
  \E p \in 1..Len(task) :
    LET imageMap == ImageMapOf(ocr[1].pages[p]) IN
    /\ task[p].st = "done"
    /\ Len(imageMap) = 2
    /\ task[p].failed = {imageMap[1][1]}
    /\ MapHas(task[p].savedImages, imageMap[2][1])

\* C20: every request the handler has started on is answered, and answered once:
\* the response never changes after it is sent; when building the mock response
\* threw (fetch of the sample image, session directory, session-info.json), on the
\* sample path or on the fallback path, the answer is HTTP 500 "Failed to process
\* PDF" and not a mock response
C20_OneResponseAlways ==
  /\ [](/\ (pc = "done") <=> Answered
        /\ outerCatch # "none" =>
             /\ mockVia \in {"sample", "fallback"}
             /\ IsFailedAnswer
             /\ ~IsMockAnswer)
  /\ [][response # <<>> => response' = response]_vars
  /\ (pc # "idle") ~> Answered

C20_Witness ==
  /\ Answered
  /\ mockVia = "fallback"
  /\ outerCatch = "sessionInfo"
  /\ Status = 500

\* `![id](` : the start of a markdown image whose alt text is id
ImageOpening(id) == <<"!", "[">> \o id \o <<"]", "(">>
UniqueIds(images) ==
  \A i, j \in 1..Len(images) : i # j => images[i].id # images[j].id
\* wherever the markdown of the page shows image ref.id, it points at ref.url
PointsAtReference(page, ref) ==
  \A i \in 1..Len(page.markdown) :
    MatchAt(page.markdown, ImageOpening(ref.id), i) =>
      MatchAt(page.markdown, ImageMarkdown(ref.id, ref.url), i)

\* C23: in every 200 response, normalized or mock, on every page whose image ids
\* are unique, the processed markdown points, for each image id, at the url of the
\* page's image reference with that id
C23_MarkdownUrlIsReferenceUrl ==
  (Answered /\ Status = 200) =>
    \A p \in 1..Len(Body.pages) :
      UniqueIds(Body.pages[p].images) =>
        \A k \in 1..Len(Body.pages[p].images) :
          PointsAtReference(Body.pages[p], Body.pages[p].images[k])

\* C24: every image reference of the document-level images of a normalized
\* response has a storedAssets entry with its id as originalId and its url as
\* publicPath
C24_NoAssetLost ==
  NormalizedAnswer =>
    \A k \in 1..Len(Body.images) :
      \E i \in 1..Len(Body.storedAssets) :
        /\ Body.storedAssets[i].originalId = Body.images[k].id
        /\ Body.storedAssets[i].publicPath = Body.images[k].url

\* C25: on every normalized page the width and height that divide the images'
\* coordinates are the width and height of the page's dimensions field
C25_DivisorIsReportedDimension ==
  \A p \in 1..Len(task) :
    task[p].st = "done" =>
      LET page == task[p].result[1] IN
      \A i \in 1..Len(page.images) :
        LET c == page.images[i].coordinates IN
        /\ c.x.den = page.dimensions.width
        /\ c.width.den = page.dimensions.width
        /\ c.y.den = page.dimensions.height
        /\ c.height.den = page.dimensions.height

\* the image files of the session directory of the request
SessionImageFiles ==
  {f \in files : f.dir = session /\ f.name # <<"session", "-", "info", ".", "json">>}
SessionInfoFiles ==
  {f \in files : f.dir = session /\ f.name = <<"session", "-", "info", ".", "json">>}

\* C26: on the file system, once a request for a document of two or more pages
\* has been answered with the normalized document, the imageCount of the
\* session's session-info.json is the number of image files in the session
\* directory
C26_ImageCountIsFileCount ==
  (NormalizedAnswer /\ ~vercel /\ Len(task) >= 2) =>
    \A f \in SessionInfoFiles :
      f.content = <<"{sessionId:">> \o session
                    \o <<",imageCount:", ToString(Cardinality(SessionImageFiles)), "}">>

\* the step is a call of deleteStoredImagesBySession / getStoredImagesBySession
DeleteReturns == store'.op = "delete" /\ (store.op # "delete" \/ store' # store)
ListReturns == store'.op = "list" /\ (store.op # "list" \/ store' # store)

\* C21: deleteStoredImagesBySession returns true only if the session directory
\* existed; after a true return the directory is gone and getStoredImagesBySession
\* of that session is empty; on Vercel delete returns false, list returns the empty
\* list and neither touches the file system; without the directory delete returns
\* false
C21_DeleteAndList ==
  /\ []((store.op = "delete" /\ store.returned) =>
          /\ store.sessionId \notin dirs
          /\ getStoredImagesBySession(store.sessionId) = {})
  /\ []((store.op = "list" /\ (vercel \/ store.sessionId \notin dirs)) =>
          store.listed = {})
  /\ [][DeleteReturns =>
          /\ store'.returned => (store'.sessionId \in dirs /\ store'.sessionId \notin dirs')
          /\ store'.sessionId \notin dirs => ~store'.returned
          /\ vercel => (~store'.returned /\ UNCHANGED <<dirs, files>>)]_vars
  /\ [][ListReturns => UNCHANGED <<dirs, files>>]_vars

C21_Witness ==
  /\ store.op = "delete" /\ store.returned
  /\ store.sessionId = session
  /\ NormalizedAnswer
  /\ \E p \in 1..Len(task) : task[p].savedImages # <<>>
  /\ files = {}

\* every path the request wrote is still a file
Intact == \A path \in wrote.main : \E f \in files : f.dir \o <<"/">> \o f.name = path
\* the map returned by the one storeImagesFromMap call of the request, if it made
\* exactly one and the call returned
OneStoreCall ==
  \/ mockVia = "none" /\ Len(task) = 1 /\ task[1].st = "done"
  \/ mockVia = "sample" /\ Answered /\ outerCatch = "none"
ReturnedMap == IF mockVia = "none" THEN task[1].savedImages ELSE mockSaved

\* C27: on the file system, getStoredImagesBySession(s) after storeImagesFromMap(map, s)
\* lists one asset per saved image, each with the id, originalId, publicPath and
\* mimeType of the descriptor storeImagesFromMap returned for it
C27_ListMatchesStore ==
  (store.op = "list" /\ store.sessionId = session /\ ~vercel /\ OneStoreCall /\ Intact) =>
    /\ Cardinality(store.listed) = Len(ReturnedMap)
    /\ \A i \in 1..Len(ReturnedMap) :
         \E a \in store.listed :
           /\ a.id = ReturnedMap[i][2].id
           /\ a.originalId = ReturnedMap[i][2].originalId
           /\ a.publicPath = ReturnedMap[i][2].publicPath
           /\ a.mimeType = ReturnedMap[i][2].mimeType


\* ------------------------------------------------------------ C22
\* the runs of handleProcessFile that have not returned yet
InFlight == {i \in 1..Len(runs) : runs[i].st # "done"}

\* run i moves on in this step / ends in this step
Advances(i) == i \in 1..Len(runs) /\ runs'[i].st # runs[i].st
Begins == Len(runs') = Len(runs) + 1

\* C22: a run of handleProcessFile with a file selected sets processingStage
\* to uploading when it begins, then to processing, then to extracting, one
\* after the other, and sets it to null in the step in which it ends, whether
\* the request succeeded, was answered non-OK or threw; the stage on display
\* is the position of the run in flight and is null when none is; an
\* invocation with no file selected leaves the state of the page as it was.
C22_StagesInOrder ==
  /\ [](\A i \in InFlight : client.processingStage = Some(runs[i].st))
  /\ [](InFlight = {} => client.processingStage = Null)
  /\ [][Begins /\ client.file # Null =>
          /\ runs'[Len(runs')].st = "uploading"
          /\ client'.processingStage = Some("uploading")]_vars
  /\ [][\A i \in 1..Len(runs) : Advances(i) =>
          \/ runs[i].st = "uploading" /\ runs'[i].st = "processing"
               /\ client'.processingStage = Some("processing")
          \/ runs[i].st = "processing" /\ runs'[i].st = "extracting"
               /\ client'.processingStage = Some("extracting")
          \/ runs[i].st = "extracting" /\ runs'[i].st = "done"
               /\ runs'[i].outcome \in {"ok", "notOk", "threw"}
               /\ client'.processingStage = Null]_vars
  /\ [][Begins /\ client.file = Null =>
          /\ client' = client
          /\ runs'[Len(runs')].st = "done"]_vars

\* runs have ended in each of the three ways, and one was invoked without a file
C22_Witness ==
  /\ client.processingStage = Null
  /\ \E i, j \in 1..Len(runs) :
       /\ runs[i].st = "done" /\ runs[i].outcome = "notOk"
       /\ runs[j].st = "done" /\ runs[j].outcome = "threw"

\* ------------------------------------------------------------ C28
\* C28: the results on display are the answer to a request that carried the
\* file that is selected now.
C28_ResultsOfSelectedFile ==
  client.results # Null =>
    /\ client.file # Null
    /\ client.results[1].parsedFrom.pdf = client.file[1]

====
